---- MODULE Spec2Model ----
(***************************************************************************)
(* Model of macos_client_bidirectional.py: the reconnect loop of           *)
(* clipboard_sync() and the three coroutines (receive, send, heartbeat)    *)
(* it gathers for every connected session.                                 *)
(*                                                                         *)
(* asyncio runs one coroutine at a time and switches only at an await, so  *)
(* every action below is the code between two awaits of one coroutine.     *)
(* The websocket, the clipboard tools and the user are the environment.    *)
(***************************************************************************)
EXTENDS Integers, Sequences, FiniteSets, TLC

\* ------------------------------------------------------------------------
\* Bounds of the model
\* ------------------------------------------------------------------------
\* successful connections explored by Spec (ConnectOk takes the limit)
MaxSessions == 1
\* consecutive failures explored when the number of attempts is unlimited
MaxCount == 7
\* state changes kept in stateLog
MaxLog == 3
\* states waiting in state_queue
MaxQueue == 3

\* ------------------------------------------------------------------------
\* Program constants
\* ------------------------------------------------------------------------
RECONNECT_DELAY == 5
\* the values of MAX_RECONNECT_ATTEMPTS explored: the default and a limit
ConfiguredLimits == {0, 3}
\* consecutive failed reads after which send() pauses
ErrorThreshold == 5
\* upper limit of the backoff delay, seconds
DelayCap == 60

DISCONNECTED == "disconnected"
CONNECTING == "connecting"
CONNECTED == "connected"
ConnectionState == {DISCONNECTED, CONNECTING, CONNECTED}

\* ------------------------------------------------------------------------
\* Texts: sequences of characters; "CR" and "LF" are the line endings
\* ------------------------------------------------------------------------
Text == {<<>>, <<"LF">>, <<"CR", "LF">>}
\* get_clipboard() returning None
None == <<"None">>

Min(a, b) == IF a < b THEN a ELSE b

\* subprocess.run(..., text=True): line endings "\r\n" and "\r" of the
\* captured output are translated to "\n"
RECURSIVE TranslateNewlines(_)
TranslateNewlines(t) ==
    IF t = <<>> THEN <<>>
    ELSE IF Head(t) = "CR"
         THEN IF Len(t) >= 2 /\ t[2] = "LF"
              THEN <<"LF">> \o TranslateNewlines(SubSeq(t, 3, Len(t)))
              ELSE <<"LF">> \o TranslateNewlines(Tail(t))
         ELSE <<Head(t)>> \o TranslateNewlines(Tail(t))

\* The results get_clipboard() can produce while the clipboard holds c:
\* pbpaste through a text-mode pipe, else pyperclip.paste(), else None
ReadResults(c) == {TranslateNewlines(c), c, None}

\* x or "" (None and the empty string are both falsy)
OrEmpty(x) == IF x = None THEN <<>> ELSE x

\* Inbound frames: not JSON; JSON that is not an object; an object of
\* another type, with or without a text; a clipboard envelope (a missing
\* text reads as "")
Frames == {[kind |-> k, text |-> <<>>] : k \in {"malformed", "nonobject"}}
          \cup {[kind |-> k, text |-> t] : k \in {"other", "clipboard"}, t \in Text}

\* Scale of the delays: 1.5^k has at most 5 binary places for k <= 5, so
\* every delay times 2^5 is an integer
Scale == 2 ^ 5

\* the exponent taken from the count itself, one too high
BackoffExponentOffByOne(n) == Min(n, 5)

\* delay = min(RECONNECT_DELAY * (1.5 ** min(reconnect_count - 1, 5)), 60),
\* in units of 1/Scale seconds
BackoffExponent(n) == Min(n - 1, 5)
BackoffDelay(n) ==
    LET k == BackoffExponent(n)
    IN  Min(RECONNECT_DELAY * (3 ^ k) * (2 ^ (5 - k)), DelayCap * Scale)

\* the limit compared with >=: the loop stops one failure early
LimitReached(limit, n) == limit > 0 /\ n >= limit

\* the test for "unlimited" left out
LimitExceededAlsoWhenZero(limit, n) == n > limit

\* MAX_RECONNECT_ATTEMPTS > 0 and reconnect_count > MAX_RECONNECT_ATTEMPTS
LimitExceeded(limit, n) == limit > 0 /\ n > limit

\* the notification at every failure
AnyOfStreak(n) == n >= 1

\* reconnect_count == 1
FirstOfStreak(n) == n = 1

Sessions == 1..(MaxSessions + 1)

VARIABLES
    MAX_RECONNECT_ATTEMPTS, \* the configured limit (0 = unlimited)
    gui_app,           \* global gui_app: TRUE for the menu bar app, FALSE for None
    state_queue,       \* ClipboardSyncApp.state_queue, oldest first
    displayed,         \* the state the icon and the status item show
    lastDrain,         \* the states the last run of _check_state_queue took
    enginePc,          \* where clipboard_sync() is suspended
    current_state,     \* global current_state
    reconnect_count,   \* local of clipboard_sync()
    delay,             \* the last computed backoff delay, 1/Scale seconds
    session,           \* number of connections established so far
    last_clipboard,    \* local of clipboard_sync(), shared by the tasks
    clipboard,         \* the macOS pasteboard
    ws,                \* per session: state of the websocket
    recv,              \* per session: the receive() task
    send,              \* per session: the send() task
    consecutive_errors,\* per session: local of send()
    hb,                \* per session: the heartbeat() task
    readFailures,      \* per session: failed reads of send() in a row, counted
                       \* from the last successful read or the last pause
    ev,                \* what the last step did: the text it sent, the text it
                       \* passed to set_clipboard, the kind of frame it received
    stateLog,          \* the values current_state has taken, oldest first
    firstOutcome,      \* outcome of the first connection attempt
    streakFailures,    \* failures since the last successful connection
    connectedNotes,    \* "connected" notifications emitted
    streakNotes,       \* "reconnecting" notifications since the last success
    stoppedNotes       \* "stopped reconnecting" notifications emitted

guiVars == <<gui_app, displayed, lastDrain>>
engineVars == <<MAX_RECONNECT_ATTEMPTS, guiVars, enginePc, reconnect_count, delay, session,
                firstOutcome, streakFailures, connectedNotes, streakNotes,
                stoppedNotes>>
taskVars == <<ws, recv, send, consecutive_errors, hb, readFailures>>
vars == <<MAX_RECONNECT_ATTEMPTS, gui_app, state_queue, displayed, lastDrain, enginePc, current_state, reconnect_count, delay,
          session, last_clipboard, clipboard, ws, recv, send, consecutive_errors,
          hb, readFailures, ev, stateLog, firstOutcome, streakFailures, connectedNotes,
          streakNotes, stoppedNotes>>

\* ev of a step that reads, sends and writes nothing
NoEvent == [sent |-> <<>>, written |-> <<>>, frame |-> "none"]

\* gui is TRUE when the program was started with --gui
InitWith(gui) ==
    /\ MAX_RECONNECT_ATTEMPTS \in ConfiguredLimits
    /\ gui_app = gui
    /\ state_queue = <<>>
    /\ displayed = DISCONNECTED
    /\ lastDrain = <<>>
    /\ enginePc = "start"
    /\ current_state = DISCONNECTED
    /\ reconnect_count = 0
    /\ delay = 0
    /\ session = 0
    /\ last_clipboard = <<>>
    /\ clipboard \in Text
    /\ ws = [s \in Sessions |-> "none"]
    /\ recv = [s \in Sessions |-> "none"]
    /\ send = [s \in Sessions |-> "none"]
    /\ consecutive_errors = [s \in Sessions |-> 0]
    /\ hb = [s \in Sessions |-> "none"]
    /\ readFailures = [s \in Sessions |-> 0]
    /\ ev = NoEvent
    /\ stateLog = <<DISCONNECTED>>
    /\ firstOutcome = "none"
    /\ streakFailures = 0
    /\ connectedNotes = 0
    /\ streakNotes = 0
    /\ stoppedNotes = 0

\* run_cli(): no menu bar app
Init == InitWith(FALSE)

\* ClipboardSyncApp.run()
GuiInit == InitWith(TRUE)

\* set_state(new_state): only a change is recorded and, with a menu bar
\* app, put into its queue (update_state)
set_state(new_state) ==
    /\ current_state' = new_state
    /\ state_queue' = IF current_state # new_state /\ gui_app
                      THEN Append(state_queue, new_state)
                      ELSE state_queue
    /\ stateLog' = IF current_state # new_state /\ Len(stateLog) < MaxLog
                   THEN Append(stateLog, new_state)
                   ELSE stateLog

\* cancellation that reaches only the tasks gathered by the engine
OnlyGatheredCancelled ==
    /\ recv' = [s \in Sessions |-> IF s = session /\ enginePc = "gather" /\ recv[s] = "running"
                                    THEN "cancelled" ELSE recv[s]]
    /\ send' = [s \in Sessions |-> IF s = session /\ enginePc = "gather" /\ send[s] \in {"poll", "pause"}
                                    THEN "cancelled" ELSE send[s]]
    /\ hb' = [s \in Sessions |-> IF s = session /\ enginePc = "gather" /\ hb[s] = "running"
                                  THEN "cancelled" ELSE hb[s]]
    /\ ws' = [s \in Sessions |-> IF ws[s] = "open" THEN "closedErr" ELSE ws[s]]
    /\ UNCHANGED <<consecutive_errors, readFailures>>

\* The event loop is torn down (asyncio.run / run_until_complete returns):
\* every task still pending is cancelled and never runs again
AllTasksCancelled ==
    /\ recv' = [s \in Sessions |-> IF recv[s] = "running" THEN "cancelled" ELSE recv[s]]
    /\ send' = [s \in Sessions |-> IF send[s] \in {"poll", "pause"} THEN "cancelled" ELSE send[s]]
    /\ hb' = [s \in Sessions |-> IF hb[s] = "running" THEN "cancelled" ELSE hb[s]]
    /\ ws' = [s \in Sessions |-> IF ws[s] = "open" THEN "closedErr" ELSE ws[s]]
    /\ UNCHANGED <<consecutive_errors, readFailures>>


\* ------------------------------------------------------------------------
\* clipboard_sync(): the reconnect loop
\* ------------------------------------------------------------------------

\* Startup that goes on to connect without set_state(CONNECTING)
StartupWithoutConnecting(r) ==
    /\ enginePc = "start"
    /\ r \in ReadResults(clipboard)
    /\ last_clipboard' = OrEmpty(r)
    /\ enginePc' = "connecting"
    /\ ev' = NoEvent
    /\ UNCHANGED <<MAX_RECONNECT_ATTEMPTS, guiVars, reconnect_count, delay, session, clipboard,
                   firstOutcome, streakFailures, connectedNotes, streakNotes,
                   stoppedNotes, current_state, stateLog, state_queue>>
    /\ UNCHANGED taskVars

\* Lines 98-114: the snapshot is initialised from the clipboard, the state
\* becomes CONNECTING and the coroutine awaits websockets.connect
Startup(r) ==
    /\ enginePc = "start"
    /\ r \in ReadResults(clipboard)
    /\ last_clipboard' = OrEmpty(r)
    /\ set_state(CONNECTING)
    /\ enginePc' = "connecting"
    /\ ev' = NoEvent
    /\ UNCHANGED <<MAX_RECONNECT_ATTEMPTS, guiVars, reconnect_count, delay, session, clipboard,
                   firstOutcome, streakFailures, connectedNotes, streakNotes,
                   stoppedNotes>>
    /\ UNCHANGED taskVars

\* Lines 114-188: the connection is established; state CONNECTED, counter
\* reset, "connected" notification, the three tasks are gathered. limit is
\* the number of connections explored.
ConnectOk(limit) ==
    /\ enginePc = "connecting"
    /\ session < limit
    /\ session' = session + 1
    /\ set_state(CONNECTED)
    /\ reconnect_count' = 0
    /\ connectedNotes' = connectedNotes + 1
    /\ ws' = [ws EXCEPT ![session + 1] = "open"]
    /\ recv' = [recv EXCEPT ![session + 1] = "running"]
    /\ send' = [send EXCEPT ![session + 1] = "poll"]
    /\ consecutive_errors' = [consecutive_errors EXCEPT ![session + 1] = 0]
    /\ hb' = [hb EXCEPT ![session + 1] = "running"]
    /\ UNCHANGED readFailures
    /\ enginePc' = "gather"
    /\ firstOutcome' = IF firstOutcome = "none" THEN "ok" ELSE firstOutcome
    /\ streakFailures' = 0
    /\ streakNotes' = 0
    /\ ev' = NoEvent
    /\ UNCHANGED <<MAX_RECONNECT_ATTEMPTS, guiVars, delay, last_clipboard, clipboard, stoppedNotes>>

\* Lines 193-209: the handler of `except Exception`
HandleFailure ==
    /\ set_state(DISCONNECTED)
    /\ reconnect_count' = reconnect_count + 1
    /\ streakFailures' = streakFailures + 1
    /\ IF LimitExceeded(MAX_RECONNECT_ATTEMPTS, reconnect_count + 1)
       THEN /\ stoppedNotes' = stoppedNotes + 1
            /\ enginePc' = "stopped"
            /\ AllTasksCancelled
            /\ UNCHANGED <<delay, streakNotes>>
       ELSE /\ delay' = BackoffDelay(reconnect_count + 1)
            /\ streakNotes' = IF FirstOfStreak(reconnect_count + 1)
                              THEN streakNotes + 1 ELSE streakNotes
            /\ enginePc' = "backoff"
            /\ UNCHANGED <<stoppedNotes, taskVars>>
    /\ ev' = NoEvent
    /\ UNCHANGED <<MAX_RECONNECT_ATTEMPTS, guiVars, session, last_clipboard, clipboard,
                   connectedNotes>>

\* websockets.connect raises
ConnectFail ==
    /\ enginePc = "connecting"
    /\ reconnect_count < MaxCount
    /\ firstOutcome' = IF firstOutcome = "none" THEN "fail" ELSE firstOutcome
    /\ HandleFailure

\* Line 188: gather re-raises the exception of the first task that raises.
\* Only receive() can raise: send() and heartbeat() catch every Exception.
\* The tasks that are still pending are left running.
SessionFail ==
    /\ enginePc = "gather"
    /\ recv[session] = "raised"
    /\ UNCHANGED firstOutcome
    /\ HandleFailure

\* Line 209 and 110: the backoff sleep ends, next iteration of the loop
BackoffDone ==
    /\ enginePc = "backoff"
    /\ set_state(CONNECTING)
    /\ enginePc' = "connecting"
    /\ ev' = NoEvent
    /\ UNCHANGED <<MAX_RECONNECT_ATTEMPTS, guiVars, reconnect_count, delay, session,
                   last_clipboard, clipboard, firstOutcome, streakFailures,
                   connectedNotes, streakNotes, stoppedNotes>>
    /\ UNCHANGED taskVars

\* Lines 190-192, 311-316, 363-366: the loop is cancelled from outside at
\* one of its awaits; the event loop ends and with it every task
Cancel ==
    /\ enginePc \in {"connecting", "gather", "backoff"}
    /\ enginePc' = "cancelled"
    /\ AllTasksCancelled
    /\ ev' = NoEvent
    /\ UNCHANGED <<MAX_RECONNECT_ATTEMPTS, guiVars, current_state, stateLog, state_queue, reconnect_count,
                   delay, session, last_clipboard, clipboard, firstOutcome,
                   streakFailures, connectedNotes, streakNotes, stoppedNotes>>


\* ------------------------------------------------------------------------
\* receive()
\* ------------------------------------------------------------------------

\* every JSON object taken for a clipboard envelope, whatever its type
IsObjectFrame(f) == f.kind \in {"clipboard", "other"}

\* Line 133: data.get("type") == "clipboard"; a frame that is not JSON or
\* not an object raises inside the try and is logged
IsClipboardFrame(f) == f.kind = "clipboard"

\* the test for an empty text left out
ShouldApplyAnyText(text, snapshot) == text # snapshot

\* Line 135: text and text != last_clipboard
ShouldApply(text, snapshot) == text # <<>> /\ text # snapshot

\* the snapshot assigned whatever set_clipboard returned
SnapshotAfterWriteUnchecked(ok, text, snapshot) == text

\* Lines 136-137: the snapshot is assigned only if set_clipboard(text)
\* returned True
SnapshotAfterWrite(ok, text, snapshot) == IF ok THEN text ELSE snapshot

\* Lines 130-142: one inbound frame. ok is the result of set_clipboard.
ReceiveFrame(s, f, ok) ==
    /\ recv[s] = "running"
    /\ ws[s] = "open"
    /\ IF IsClipboardFrame(f) /\ ShouldApply(f.text, last_clipboard)
       THEN /\ ev' = [NoEvent EXCEPT !.written = <<f.text>>, !.frame = f.kind]
            /\ clipboard' = (IF ok THEN f.text ELSE clipboard)
            /\ last_clipboard' = SnapshotAfterWrite(ok, f.text, last_clipboard)
       ELSE /\ ev' = [NoEvent EXCEPT !.frame = f.kind]
            /\ ok
            /\ UNCHANGED <<clipboard, last_clipboard>>
    /\ UNCHANGED <<engineVars, current_state, stateLog, state_queue, taskVars>>

\* Line 130: the iteration ends when the connection was closed normally
ReceiveEnd(s) ==
    /\ recv[s] = "running"
    /\ ws[s] = "closedOK"
    /\ recv' = [recv EXCEPT ![s] = "done"]
    /\ ev' = NoEvent
    /\ UNCHANGED <<engineVars, current_state, stateLog, state_queue, last_clipboard, clipboard,
                   ws, send, consecutive_errors, hb, readFailures>>

\* Line 130: the iteration raises ConnectionClosedError otherwise
ReceiveRaise(s) ==
    /\ recv[s] = "running"
    /\ ws[s] = "closedErr"
    /\ recv' = [recv EXCEPT ![s] = "raised"]
    /\ ev' = NoEvent
    /\ UNCHANGED <<engineVars, current_state, stateLog, state_queue, last_clipboard, clipboard,
                   ws, send, consecutive_errors, hb, readFailures>>

\* ------------------------------------------------------------------------
\* send()
\* ------------------------------------------------------------------------

\* Line 152: current and current != last_clipboard
ShouldSend(current, snapshot) == current # <<>> /\ current # snapshot

\* Line 154: ws.send transmits on an open connection and raises on a closed
\* one; the exception is caught at line 166
Transmitted(conn, current) == IF conn = "open" THEN <<current>> ELSE <<>>

\* the pause taken only after one failure more than the threshold
PauseAfterFailureLate(n) == n + 1 > ErrorThreshold

\* Lines 161-165: the count after one more failed read, and whether to pause
ErrorsAfterFailure(n) == IF n + 1 >= ErrorThreshold THEN 0 ELSE n + 1
PauseAfterFailure(n) == n + 1 >= ErrorThreshold

\* Lines 148-168: one iteration of the polling loop. r is the result of
\* get_clipboard. The snapshot is assigned before ws.send is awaited.
SenderPoll(s, r) ==
    /\ send[s] = "poll"
    /\ r \in ReadResults(clipboard)
    /\ readFailures' = [readFailures EXCEPT ![s] = IF r # None THEN 0 ELSE @ + 1]
    /\ IF r # None
       THEN /\ consecutive_errors' = [consecutive_errors EXCEPT ![s] = 0]
            /\ UNCHANGED send
            /\ IF ShouldSend(r, last_clipboard)
               THEN /\ last_clipboard' = r
                    /\ ev' = [NoEvent EXCEPT !.sent = Transmitted(ws[s], r)]
               ELSE /\ UNCHANGED last_clipboard
                    /\ ev' = NoEvent
       ELSE /\ consecutive_errors' =
                   [consecutive_errors EXCEPT ![s] = ErrorsAfterFailure(@)]
            /\ send' = [send EXCEPT ![s] =
                   IF PauseAfterFailure(consecutive_errors[s]) THEN "pause" ELSE "poll"]
            /\ ev' = NoEvent
            /\ UNCHANGED last_clipboard
    /\ UNCHANGED <<engineVars, current_state, stateLog, state_queue, clipboard, ws, recv, hb>>

\* Line 165: the 2 s pause ends
SenderResume(s) ==
    /\ send[s] = "pause"
    /\ send' = [send EXCEPT ![s] = "poll"]
    /\ readFailures' = [readFailures EXCEPT ![s] = 0]
    /\ ev' = NoEvent
    /\ UNCHANGED <<engineVars, current_state, stateLog, state_queue, last_clipboard, clipboard,
                   ws, recv, consecutive_errors, hb>>

\* ------------------------------------------------------------------------
\* heartbeat()
\* ------------------------------------------------------------------------

\* Lines 174-175, 185: the pong arrives in time and the task sleeps 30 s
\* until its next ping. Nothing else reads whether the task is sleeping or
\* waiting for the pong, so both are the one state "running".
HeartbeatPong(s) ==
    /\ hb[s] = "running"
    /\ ws[s] = "open"
    /\ ev' = NoEvent
    /\ UNCHANGED <<engineVars, current_state, stateLog, state_queue, last_clipboard, clipboard,
                   taskVars>>

\* Lines 176-180: no pong within 10 s. ws.close() ends the connection with
\* the closing handshake (closedOK) or, when the peer does not answer it,
\* without (closedErr).
HeartbeatTimeout(s, closed) ==
    /\ hb[s] = "running"
    /\ ws[s] = "open"
    /\ closed \in {"closedOK", "closedErr"}
    /\ set_state(DISCONNECTED)
    /\ ws' = [ws EXCEPT ![s] = closed]
    /\ hb' = [hb EXCEPT ![s] = "timedout"]
    /\ ev' = NoEvent
    /\ UNCHANGED <<engineVars, last_clipboard, clipboard, recv, send,
                   consecutive_errors, readFailures>>

\* Lines 181-184: ws.ping() or the wait for the pong raises because the
\* connection is closed
HeartbeatError(s) ==
    /\ hb[s] = "running"
    /\ ws[s] \in {"closedOK", "closedErr"}
    /\ set_state(DISCONNECTED)
    /\ hb' = [hb EXCEPT ![s] = "failed"]
    /\ ev' = NoEvent
    /\ UNCHANGED <<engineVars, last_clipboard, clipboard, ws, recv, send,
                   consecutive_errors, readFailures>>

\* ------------------------------------------------------------------------
\* Environment: the network, the relay and the user
\* ------------------------------------------------------------------------

\* The connection breaks (no closing handshake)
ConnectionLost(s) ==
    /\ ws[s] = "open"
    /\ ws' = [ws EXCEPT ![s] = "closedErr"]
    /\ ev' = NoEvent
    /\ UNCHANGED <<engineVars, current_state, stateLog, state_queue, last_clipboard, clipboard,
                   recv, send, consecutive_errors, hb, readFailures>>

\* The relay closes the connection with a closing handshake
ServerClose(s) ==
    /\ ws[s] = "open"
    /\ ws' = [ws EXCEPT ![s] = "closedOK"]
    /\ ev' = NoEvent
    /\ UNCHANGED <<engineVars, current_state, stateLog, state_queue, last_clipboard, clipboard,
                   recv, send, consecutive_errors, hb, readFailures>>

\* The user copies a text
LocalCopy(t) ==
    /\ t \in Text
    /\ t # clipboard
    /\ enginePc \notin {"stopped", "cancelled"}
    /\ clipboard' = t
    /\ ev' = NoEvent
    /\ UNCHANGED <<engineVars, current_state, stateLog, state_queue, last_clipboard, taskVars>>

\* ------------------------------------------------------------------------
\* ClipboardSyncApp: the state queue between the engine and the menu bar
\* ------------------------------------------------------------------------

\* the state shown after a drain that shows the first state it took
OldestOf(q) == q[1]

\* Lines 282-283: the loop keeps the state it took last
LatestOf(q) == q[Len(q)]

\* Lines 49-57, 300-303: some coroutine of the sync thread calls
\* set_state(st). queue.Queue() has no maximum size, so put() returns at
\* once; the bound on the length is the model's.
PublishState(st) ==
    /\ gui_app
    /\ st \in ConnectionState
    /\ Len(state_queue) < MaxQueue
    /\ set_state(st)
    /\ ev' = NoEvent
    /\ UNCHANGED <<engineVars, last_clipboard, clipboard, taskVars>>

\* Lines 277-298: the timer of the main thread takes everything the queue
\* holds and shows the last state taken, if any
CheckStateQueue ==
    /\ gui_app
    /\ displayed' = IF state_queue # <<>> THEN LatestOf(state_queue) ELSE displayed
    /\ lastDrain' = state_queue
    /\ state_queue' = <<>>
    /\ ev' = NoEvent
    /\ UNCHANGED <<MAX_RECONNECT_ATTEMPTS, gui_app, enginePc, current_state, stateLog,
                   reconnect_count, delay, session, last_clipboard, clipboard,
                   firstOutcome, streakFailures, connectedNotes, streakNotes,
                   stoppedNotes, taskVars>>

\* the steps of the reconnect loop
EngineStep ==
    \/ \E r \in Text \cup {None} : Startup(r)
    \/ ConnectOk(MaxSessions + 1)
    \/ ConnectFail
    \/ SessionFail
    \/ BackoffDone

\* every step but the establishing of a connection
OtherSteps ==
    \/ \E r \in Text \cup {None} : Startup(r)
    \/ ConnectFail
    \/ SessionFail
    \/ BackoffDone
    \/ Cancel
    \/ \E s \in Sessions, f \in Frames, ok \in BOOLEAN : ReceiveFrame(s, f, ok)
    \/ \E s \in Sessions : ReceiveEnd(s)
    \/ \E s \in Sessions : ReceiveRaise(s)
    \/ \E s \in Sessions, r \in Text \cup {None} : SenderPoll(s, r)
    \/ \E s \in Sessions : SenderResume(s)
    \/ \E s \in Sessions : HeartbeatPong(s)
    \/ \E s \in Sessions, closed \in {"closedOK", "closedErr"} : HeartbeatTimeout(s, closed)
    \/ \E s \in Sessions : HeartbeatError(s)
    \/ \E s \in Sessions : ConnectionLost(s)
    \/ \E s \in Sessions : ServerClose(s)
    \/ \E t \in Text : LocalCopy(t)

Next == ConnectOk(MaxSessions) \/ OtherSteps

Spec == Init /\ [][Next]_vars


\* The event loop runs every task that is ready, every sleep ends and a
\* closed connection is noticed by whoever waits on it. Nothing is assumed
\* of the network, the relay or the user.
Fairness ==
    /\ WF_vars(SessionFail)
    /\ WF_vars(BackoffDone)
    /\ \A s \in Sessions :
        /\ WF_vars(ReceiveEnd(s))
        /\ WF_vars(ReceiveRaise(s))
        /\ WF_vars(\E r \in Text \cup {None} : SenderPoll(s, r))
        /\ WF_vars(SenderResume(s))
        /\ WF_vars(HeartbeatError(s))

FairSpec == Spec /\ Fairness

\* The same program followed through one more connection, so that the
\* tasks an abandoned session leaves behind meet the session after it
NextReconnect == ConnectOk(MaxSessions + 1) \/ OtherSteps

ReconnectSpec == Init /\ [][NextReconnect]_vars

\* The program left alone with the clipboard: the startup read succeeds,
\* the user copies nothing and the relay sends no clipboard envelope, so
\* nothing ever changes the clipboard
IdleNext ==
    \/ \E r \in Text : Startup(r)
    \/ ConnectOk(MaxSessions + 1)
    \/ ConnectFail
    \/ SessionFail
    \/ BackoffDone
    \/ Cancel
    \/ \E s \in Sessions, f \in Frames :
          ~IsClipboardFrame(f) /\ ReceiveFrame(s, f, TRUE)
    \/ \E s \in Sessions : ReceiveEnd(s)
    \/ \E s \in Sessions : ReceiveRaise(s)
    \/ \E s \in Sessions, r \in Text \cup {None} : SenderPoll(s, r)
    \/ \E s \in Sessions : SenderResume(s)
    \/ \E s \in Sessions : HeartbeatPong(s)
    \/ \E s \in Sessions, closed \in {"closedOK", "closedErr"} : HeartbeatTimeout(s, closed)
    \/ \E s \in Sessions : HeartbeatError(s)
    \/ \E s \in Sessions : ConnectionLost(s)
    \/ \E s \in Sessions : ServerClose(s)

IdleSpec == Init /\ [][IdleNext]_vars

\* The menu bar app seen from its queue: set_state is called with any
\* state at any time, the timer drains the queue
GuiNext ==
    \/ \E st \in ConnectionState : PublishState(st)
    \/ CheckStateQueue

GuiSpec == GuiInit /\ [][GuiNext]_vars

\* rumps.timer(0.5): the timer keeps firing
GuiFairSpec == GuiSpec /\ WF_vars(CheckStateQueue)

\* ------------------------------------------------------------------------
\* Properties
\* ------------------------------------------------------------------------

\* the engine is waiting in gather for the tasks of session s
Live(s) == s = session /\ enginePc = "gather"

\* the engine has left session s: it handled its failure, stopped, or was
\* cancelled
Left(s) == s < session \/ (s = session /\ enginePc # "gather")

\* the last step was receive() writing a text to the clipboard with success
\* (the snapshot is assigned only then)
JustReceived ==
    /\ ev.written # <<>>
    /\ last_clipboard = ev.written[1]
    /\ clipboard = ev.written[1]

\* C1 (as claimed): when receive() has just written a text to the clipboard
\* and the very next step is a poll of send(), with no change of the
\* clipboard in between, that poll sends nothing.
EchoPrevention ==
    [][(JustReceived /\ \E s \in Sessions, r \in Text : SenderPoll(s, r))
         => ev'.sent = <<>>]_vars

\* C3 (as claimed): a poll of send() that observes a non-empty text T
\* different from the snapshot transmits exactly one envelope with T and
\* leaves the snapshot at T.
SendExactlyOnce ==
    [][\A s \in Sessions, r \in Text \ {<<>>} :
         (SenderPoll(s, r) /\ r # last_clipboard)
           => (ev'.sent = <<r>> /\ last_clipboard' = r)]_vars

\* C4 (as claimed): a clipboard frame with text T different from the
\* snapshot makes receive() call set_clipboard(T) exactly once and the
\* snapshot becomes T; with T equal to the snapshot nothing is written.
ReceiveWritesOnce ==
    [][\A s \in Sessions, t \in Text, ok \in BOOLEAN :
         ReceiveFrame(s, [kind |-> "clipboard", text |-> t], ok)
           => IF t # last_clipboard
              THEN ev'.written = <<t>> /\ last_clipboard' = t
              ELSE ev'.written = <<>> /\ last_clipboard' = last_clipboard]_vars

\* C4 (amended): a clipboard frame with a non-empty text T different from
\* the snapshot makes receive() call set_clipboard(T) exactly once, and the
\* snapshot becomes T when the write succeeds and is unchanged when it
\* fails; an empty T, or T equal to the snapshot, writes nothing and leaves
\* the snapshot and the clipboard unchanged.
ReceiveWritesOnceIfNonEmpty ==
    [][\A s \in Sessions, t \in Text, ok \in BOOLEAN :
         ReceiveFrame(s, [kind |-> "clipboard", text |-> t], ok)
           => IF t # <<>> /\ t # last_clipboard
              THEN /\ ev'.written = <<t>>
                   /\ last_clipboard' = (IF ok THEN t ELSE last_clipboard)
                   /\ clipboard' = (IF ok THEN t ELSE clipboard)
              ELSE /\ ev'.written = <<>>
                   /\ last_clipboard' = last_clipboard
                   /\ clipboard' = clipboard]_vars

\* C4 witness: receive() has just applied a text that was not the snapshot
ReceiveApplied == JustReceived /\ ev.written[1] = <<"CR", "LF">>

\* C5 (as claimed): once the engine has left a session, none of the three
\* tasks of that session is still running.
NoTaskOutlivesSession ==
    \A s \in Sessions :
        Left(s) => /\ recv[s] # "running"
                   /\ send[s] \notin {"poll", "pause"}
                   /\ hb[s] # "running"


DelayTable == <<5 * 32, 15 * 16, 45 * 8, 135 * 4, 405 * 2, 1215>>

\* C6 (as claimed): the delay before the retry after the n-th consecutive
\* failure is the n-th entry of the table for n = 1..6 and 60 s for n >= 7.
BackoffCappedAtSixty ==
    enginePc = "backoff" =>
        delay = IF reconnect_count <= 6 THEN DelayTable[reconnect_count]
                ELSE DelayCap * Scale

\* C6 (amended): the delay before the retry after the n-th consecutive
\* failure is the n-th entry of the table for n = 1..6 and stays at the 6th
\* entry, 37.96875 s, for n >= 7; the 60 s cap is never reached.
BackoffSequence ==
    enginePc = "backoff" =>
        /\ delay = IF reconnect_count <= 6 THEN DelayTable[reconnect_count]
                   ELSE DelayTable[6]
        /\ delay < DelayCap * Scale

\* C6 witness: the engine waits after the 7th consecutive failure
SeventhBackoff == enginePc = "backoff" /\ reconnect_count = 7 /\ streakFailures = 7

\* C7: with a limit of 3 the loop stops at the 4th consecutive failure and
\* at no earlier one, the terminal notification is emitted exactly once,
\* and from then on the state is DISCONNECTED and the loop takes no step.
StopsAtFourthFailure ==
    MAX_RECONNECT_ATTEMPTS = 3 =>
        /\ enginePc = "stopped" <=> streakFailures >= 4
        /\ streakFailures <= 4
        /\ stoppedNotes = (IF enginePc = "stopped" THEN 1 ELSE 0)
        /\ enginePc = "stopped" => (current_state = DISCONNECTED /\ ~ENABLED EngineStep)

\* C7 witness: stopped after four consecutive failures under the limit 3
StoppedAfterFour ==
    MAX_RECONNECT_ATTEMPTS = 3 /\ enginePc = "stopped" /\ streakFailures = 4

\* C8: without a limit the loop never stops and never emits the terminal
\* notification; after every failure the engine waits for the backoff delay
\* or is connecting again, and the wait always can end in a new attempt.
NeverTerminal ==
    MAX_RECONNECT_ATTEMPTS = 0 =>
        /\ enginePc # "stopped"
        /\ stoppedNotes = 0
        /\ (streakFailures >= 1 /\ enginePc # "cancelled")
             => enginePc \in {"backoff", "connecting"}
        /\ enginePc = "backoff" => ENABLED BackoffDone

\* C8 witness: a new attempt after five consecutive failures, no limit
RetryAfterManyFailures ==
    MAX_RECONNECT_ATTEMPTS = 0 /\ streakFailures >= 5 /\ enginePc = "connecting"

\* C9: in a streak of failures exactly one "reconnecting" notification has
\* been emitted, from the first failure on; reconnect_count is the number of
\* failures of the streak and is 0 after every successful connection.
OneNotificationPerStreak ==
    /\ streakNotes = (IF streakFailures >= 1 THEN 1 ELSE 0)
    /\ reconnect_count = streakFailures
    /\ enginePc = "gather" => reconnect_count = 0

\* C9 witness: three failures, one notification, waiting to retry
StreakOfThree ==
    streakFailures = 3 /\ streakNotes = 1 /\ enginePc = "backoff"

\* C10: when the first connection attempt succeeds, the first three values
\* of the connection state are DISCONNECTED, CONNECTING, CONNECTED; one
\* "connected" notification has been emitted per connection established.
FreshStartSequence ==
    /\ firstOutcome = "none" =>
          /\ stateLog \in {<<DISCONNECTED>>, <<DISCONNECTED, CONNECTING>>}
          /\ connectedNotes = 0
    /\ firstOutcome = "ok" =>
          /\ Len(stateLog) >= 3
          /\ SubSeq(stateLog, 1, 3) = <<DISCONNECTED, CONNECTING, CONNECTED>>
    /\ connectedNotes = session

\* C10 witness: connected at the first attempt
ConnectedAtFirstAttempt ==
    /\ firstOutcome = "ok"
    /\ session = 1
    /\ connectedNotes = 1
    /\ enginePc = "gather"
    /\ current_state = CONNECTED
    /\ stateLog = <<DISCONNECTED, CONNECTING, CONNECTED>>

\* C11 (as claimed): a poll of send() whose ws.send fails (the text is to
\* be sent and the connection is closed) ends the send() task: it is no
\* longer polling or pausing afterwards.
SendFailureEndsSender ==
    [][\A s \in Sessions, r \in Text :
         (SenderPoll(s, r) /\ ShouldSend(r, last_clipboard) /\ ws[s] # "open")
           => send'[s] \notin {"poll", "pause"}]_vars

\* the changes of the connection state the lifecycle allows
LifecycleEdges ==
    {<<DISCONNECTED, CONNECTING>>, <<CONNECTING, CONNECTED>>,
     <<CONNECTED, DISCONNECTED>>, <<CONNECTING, DISCONNECTED>>}

\* C12 (as claimed): every change of the connection state follows an edge
\* of the lifecycle; in particular it never goes from DISCONNECTED directly
\* to CONNECTED and never from CONNECTED directly to CONNECTING.
StateFollowsLifecycle ==
    [][current_state' # current_state
         => <<current_state, current_state'>> \in LifecycleEdges]_vars

\* the live session is open and none of its three tasks has ended
Healthy(s) ==
    /\ Live(s)
    /\ ws[s] = "open"
    /\ recv[s] = "running"
    /\ send[s] \in {"poll", "pause"}
    /\ hb[s] = "running"

\* C18 (as claimed): while the live session is open and none of its three
\* tasks has ended, the connection state is CONNECTED.
HealthySessionConnected ==
    \A s \in Sessions : Healthy(s) => current_state = CONNECTED

\* no task of any session is running or waiting to run
NoTaskRunning ==
    \A s \in Sessions :
        /\ recv[s] # "running"
        /\ send[s] \notin {"poll", "pause"}
        /\ hb[s] # "running"

\* C13: a cancellation of the loop at any of its awaits (connection
\* attempt, backoff wait, gather) counts no failure and emits no
\* notification; from then on the loop takes no step, no connection is
\* attempted, the counter, the notifications and the state stay as they
\* are, and no task of any session is running.
CancelStopsEverything ==
    /\ [](enginePc = "cancelled" => (NoTaskRunning /\ ~ENABLED EngineStep))
    /\ [][(Cancel \/ enginePc = "cancelled")
            => UNCHANGED <<reconnect_count, streakFailures, streakNotes, connectedNotes,
                           stoppedNotes, session, current_state, last_clipboard,
                           clipboard>>]_vars

\* C13 witness: cancelled after session 1 had failed, while the send() and
\* heartbeat() it left behind were still running
CancelledWithLeftovers ==
    /\ enginePc = "cancelled"
    /\ session = 1
    /\ reconnect_count >= 1
    /\ send[1] = "cancelled"
    /\ hb[1] = "cancelled"

\* C14: a failed clipboard read (get_clipboard returns None) in send()
\* sends nothing and leaves the snapshot unchanged; a failed write
\* (set_clipboard returns False) in receive() leaves the snapshot
\* unchanged; either step leaves the connection state, the counter, the
\* engine and the connection as they are and all tasks running (send() polls
\* again, at once or after its pause).
ClipboardFailureSkipsCycle ==
    [][\A s \in Sessions :
         /\ SenderPoll(s, None)
              => /\ ev'.sent = <<>>
                 /\ send'[s] \in {"poll", "pause"}
                 /\ UNCHANGED <<last_clipboard, clipboard, current_state,
                                reconnect_count, enginePc, session, ws, recv, hb>>
         /\ \A t \in Text :
              (ReceiveFrame(s, [kind |-> "clipboard", text |-> t], FALSE)
                 /\ ShouldApply(t, last_clipboard))
              => /\ ev'.written = <<t>>
                 /\ UNCHANGED <<last_clipboard, clipboard, current_state,
                                reconnect_count, enginePc, session, ws, recv,
                                send, hb>>]_vars

\* C14 witness: in a connected session with all tasks running, receive()
\* has just tried to write a text and failed, after a read of send() had
\* failed
WriteFailedAfterReadFailed ==
    /\ Healthy(session)
    /\ current_state = CONNECTED
    /\ ev.written # <<>>
    /\ last_clipboard # ev.written[1]
    /\ clipboard # ev.written[1]
    /\ consecutive_errors[session] >= 1

\* C15: a step of receive() on a frame that is not JSON, not an object or
\* not of type "clipboard" (ev records the kind of frame a step received)
\* causes no clipboard write and leaves the snapshot, the clipboard, the
\* connection state, the counter and the engine unchanged; receive() stays
\* in its loop on the open connection.
OtherFramesSkipped ==
    [][ev'.frame \in {"malformed", "nonobject", "other"}
         => /\ ev'.written = <<>>
            /\ \E s \in Sessions : recv'[s] = "running" /\ ws'[s] = "open"
            /\ UNCHANGED <<last_clipboard, clipboard, current_state,
                           reconnect_count, enginePc, session, taskVars>>]_vars

\* C15 witness: receive() has just skipped a frame of another type while
\* the clipboard and the snapshot hold different texts
SkippedOtherFrame ==
    /\ ev.frame = "other"
    /\ Healthy(session)
    /\ current_state = CONNECTED
    /\ clipboard # last_clipboard

\* C17: the counter of send() is the number of failed reads in a row since
\* the last successful read or pause, so every successful read resets it;
\* send() pauses exactly when the 5th failed read in a row has occurred and
\* the counter is 0 then; at the start of a poll the counter is between 0
\* and 4; the pause ends in a poll.
ConsecutiveFailureHandling ==
    \A s \in Sessions :
        /\ send[s] \in {"poll", "pause"}
             => (send[s] = "pause" <=> readFailures[s] = ErrorThreshold)
        /\ send[s] = "pause" => (consecutive_errors[s] = 0 /\ ENABLED SenderResume(s))
        /\ send[s] = "poll" => /\ consecutive_errors[s] = readFailures[s]
                               /\ consecutive_errors[s] \in 0..(ErrorThreshold - 1)
        /\ readFailures[s] <= ErrorThreshold

\* C17 witness: send() pauses after five failed reads in a row
PausedAfterFiveFailures ==
    /\ Live(session)
    /\ send[session] = "pause"
    /\ readFailures[session] = 5
    /\ consecutive_errors[session] = 0

\* C16: with a menu bar app, a state can be published whenever the model's
\* bound on the queue allows it (put never waits for the consumer); a run
\* of the timer that finds states queued takes them all and shows the last
\* one; the last state queued is the engine's state, and with nothing
\* queued the state shown is the engine's state; whenever the engine's
\* state is st, eventually st is shown or the engine has changed its state.
StateCoalescing ==
    /\ [](gui_app =>
            /\ IF state_queue = <<>>
               THEN displayed = current_state
               ELSE state_queue[Len(state_queue)] = current_state
            /\ Len(state_queue) < MaxQueue
                 => \A st \in ConnectionState : ENABLED PublishState(st))
    /\ [][(CheckStateQueue /\ state_queue # <<>>)
            => /\ displayed' = state_queue[Len(state_queue)]
               /\ state_queue' = <<>>
               /\ current_state' = current_state]_vars
    /\ \A st \in ConnectionState :
         (current_state = st) ~> (displayed = st \/ current_state # st)

\* C16 witness: the timer has just taken three queued states at once and
\* shows the last of them, which is the engine's state
DrainedThree ==
    /\ lastDrain = <<CONNECTING, DISCONNECTED, CONNECTED>>
    /\ displayed = CONNECTED
    /\ current_state = CONNECTED
    /\ state_queue = <<>>

\* C19 (as claimed): the snapshot is advanced only at startup and by
\* send() or receive() of the live session; in particular nothing advances
\* it while no session is connected, so that a text copied then is still
\* different from the snapshot when the next session starts.
SnapshotAdvancedByLiveSessionOnly ==
    [][last_clipboard' # last_clipboard
         => \/ enginePc = "start"
            \/ \E s \in Sessions :
                 /\ Live(s)
                 /\ \/ \E r \in Text : SenderPoll(s, r)
                    \/ \E f \in Frames : ReceiveFrame(s, f, TRUE)]_vars

\* C20 (as claimed): when the startup read has succeeded and nothing
\* changes the clipboard, no step sends an envelope, through any number of
\* connections.
StartupContentNotUploaded == [][ev'.sent = <<>>]_vars

====
